---- MODULE Spec2Model ----
(***************************************************************************)
(* mule-lazy-migrate: run_migration (src/src/lib.rs) and the three         *)
(* "summary" updaters it calls (xml.rs, json_ops.rs, file_ops.rs).         *)
(*                                                                         *)
(* Text is a sequence of symbols.  A symbol is one character, one word of  *)
(* characters that no operation of the model splits, or one XML tag.       *)
(* File paths are sequences of dot-separated components, so that           *)
(* <<"pom","xml">> is pom.xml and Append(p, "bak") is format!("{}.bak",p). *)
(***************************************************************************)
EXTENDS Naturals, Integers, Sequences, FiniteSets, TLC

(***************************************************************************)
(* Bounds of the model.                                                    *)
(***************************************************************************)
MaxPomElems == 2
MaxRules == 2

(***************************************************************************)
(* Symbols and text.                                                       *)
(***************************************************************************)
Ch(c) == [k |-> "c", n |-> <<c>>]
Open(name) == [k |-> "open", n |-> name]
Close(name) == [k |-> "close", n |-> name]

IsTag(sym) == sym.k \in {"open", "close"}
IsWhitespace(sym) == sym.k = "c" /\ sym.n[1] \in {" ", "\n"}

Range(s) == {s[i] : i \in 1..Len(s)}

Min(S) == CHOOSE x \in S : \A y \in S : x <= y
Max(S) == CHOOSE x \in S : \A y \in S : y <= x

FirstOf(found, none) == IF found = {} THEN none ELSE Min(found)

\* str::trim: drop the leading and the trailing whitespace
TrimTo(s, kept) == IF kept = {} THEN <<>> ELSE SubSeq(s, Min(kept), Max(kept))
Trim(s) == TrimTo(s, {i \in 1..Len(s) : ~IsWhitespace(s[i])})

\* str::contains and str::replace on a literal pattern
MatchesAt(s, i, pat) ==
    /\ i + Len(pat) - 1 <= Len(s)
    /\ SubSeq(s, i, i + Len(pat) - 1) = pat

Contains(s, pat) == \E i \in 1..(Len(s) - Len(pat) + 1) : MatchesAt(s, i, pat)

\* the matches are taken leftmost first and do not overlap; j is the start
\* of the first match from i on, 0 if there is none
RECURSIVE ReplaceFrom(_, _, _, _)
RECURSIVE ReplaceAt(_, _, _, _, _)
ReplaceFrom(s, i, from, to) ==
    ReplaceAt(s, i,
              FirstOf({j \in i..(Len(s) - Len(from) + 1) : MatchesAt(s, j, from)}, 0),
              from, to)

ReplaceAt(s, i, j, from, to) ==
    IF j = 0 THEN SubSeq(s, i, Len(s))
    ELSE SubSeq(s, i, j - 1) \o to \o ReplaceFrom(s, j + Len(from), from, to)

\* an empty pattern matches before every character and at the end
RECURSIVE Interleave(_, _)
Interleave(s, to) ==
    IF s = <<>> THEN to ELSE to \o <<Head(s)>> \o Interleave(Tail(s), to)

Replace(s, from, to) ==
    IF from = <<>> THEN Interleave(s, to) ELSE ReplaceFrom(s, 1, from, to)

(***************************************************************************)
(* Paths and the file system.                                              *)
(***************************************************************************)
POM_XML == <<"pom", "xml">>
MULE_ARTIFACT_JSON == <<"mule-artifact", "json">>
FLOW_XML == <<"flow", "xml">>
VERSIONS_BACKUP == <<"pom", "xml", "versionsBackup">>

BackupPath(path) == Append(path, "bak")
Extension(path) == IF Len(path) > 1 THEN path[Len(path)] ELSE ""

Exists(tree, path) == path \in DOMAIN tree

WriteFile(tree, path, content) ==
    [p \in (DOMAIN tree) \cup {path} |-> IF p = path THEN content ELSE tree[p]]

RemoveFile(tree, path) == [p \in (DOMAIN tree) \ {path} |-> tree[p]]

\* an injected I/O failure: the operation op fails on the file path
NoFault == [op |-> "none", path |-> <<>>]
Fails(flt, op, path) == flt.op = op /\ flt.path = path

\* the tree, the file operations done on it so far, and whether the last
\* std::fs call returned Ok
Disk(tree) == [fs |-> tree, io |-> <<>>, ok |-> TRUE]

\* std::fs::copy(source, target); a failed copy leaves the tree as it is
fs_copy(d, flt, source, target) ==
    IF Fails(flt, "copy", source)
    THEN [d EXCEPT !.ok = FALSE]
    ELSE [d EXCEPT !.fs = WriteFile(d.fs, target, d.fs[source]),
                   !.io = Append(d.io, [op |-> "copy", path |-> target])]

\* std::fs::write(path, content); a failed write leaves the tree as it is
fs_write(d, flt, path, content) ==
    IF Fails(flt, "write", path)
    THEN [d EXCEPT !.ok = FALSE]
    ELSE [d EXCEPT !.fs = WriteFile(d.fs, path, content),
                   !.io = Append(d.io, [op |-> "write", path |-> path])]

\* Result::ok(): the outcome of the call is dropped
DropResult(d) == [d EXCEPT !.ok = TRUE]

(***************************************************************************)
(* xml.rs: update_pom_xml_summary                                          *)
(***************************************************************************)
MULE_VERSION == <<"m","u","l","e",".","v","e","r","s","i","o","n">>
MUNIT_VERSION == <<"m","u","n","i","t",".","v","e","r","s","i","o","n">>
MULE_MAVEN_PLUGIN_VERSION ==
    <<"m","u","l","e",".","m","a","v","e","n",".","p","l","u","g","i","n",
      ".","v","e","r","s","i","o","n">>
APP_RUNTIME == <<"a","p","p",".","r","u","n","t","i","m","e">>

\* the property name is spliced into the pattern unescaped: '.' is the
\* regex wildcard (any character but a newline)
PatternMatchesName(property_name, tag_name) ==
    /\ Len(property_name) = Len(tag_name)
    /\ \A i \in 1..Len(property_name) :
          \/ property_name[i] = "." /\ tag_name[i] # "\n"
          \/ property_name[i] = tag_name[i]

MatchesOpen(property_name, sym) ==
    sym.k = "open" /\ PatternMatchesName(property_name, sym.n)

MatchesClose(property_name, sym) ==
    sym.k = "close" /\ PatternMatchesName(property_name, sym.n)

\* [^<]* is greedy and stops at the next tag
\* the index of the next tag from i on, Len(content) + 1 if there is none
NextTag(content, i) ==
    FirstOf({j \in i..Len(content) : IsTag(content[j])}, Len(content) + 1)

\* (<name>)([^<]*)(</name>) matches from a to j
IsMatch(content, a, j, property_name) ==
    /\ MatchesOpen(property_name, content[a])
    /\ j <= Len(content)
    /\ MatchesClose(property_name, content[j])

\* the start of the first match from i on, 0 if there is none
FirstMatch(content, i, property_name) ==
    FirstOf({a \in i..Len(content) :
                IsMatch(content, a, NextTag(content, a + 1), property_name)}, 0)

PropertyDescription(property_name, old_value, new_value) ==
    [name |-> property_name, old |-> Trim(old_value), new |-> new_value]

NeedsUpdate(old_value, new_value) == Trim(old_value) # new_value

\* the closure: the replacement of the match a..j, followed by the rest
Closure(content, i, a, j, property_name, new_value, rest) ==
    IF NeedsUpdate(SubSeq(content, a + 1, j - 1), new_value)
    THEN [content |-> SubSeq(content, i, a) \o new_value \o <<content[j]>>
                      \o rest.content,
          props |-> <<PropertyDescription(property_name,
                          SubSeq(content, a + 1, j - 1), new_value)>> \o rest.props]
    ELSE [content |-> SubSeq(content, i, j) \o rest.content, props |-> rest.props]

\* Regex::replace_all: the matches are taken leftmost first and do not overlap
RECURSIVE ReplaceAllProperty(_, _, _, _)
RECURSIVE ReplaceMatch(_, _, _, _, _, _)
ReplaceAllProperty(content, i, property_name, new_value) ==
    IF FirstMatch(content, i, property_name) = 0
    THEN [content |-> SubSeq(content, i, Len(content)), props |-> <<>>]
    ELSE ReplaceMatch(content, i, FirstMatch(content, i, property_name),
                      NextTag(content, FirstMatch(content, i, property_name) + 1),
                      property_name, new_value)

ReplaceMatch(content, i, a, j, property_name, new_value) ==
    Closure(content, i, a, j, property_name, new_value,
            ReplaceAllProperty(content, j + 1, property_name, new_value))

Updated(r, updated_props) ==
    [content |-> r.content,
     updated_props |-> updated_props \o r.props,
     did_change |-> r.props # <<>>]

update_property_value(content, property_name, new_value, updated_props) ==
    Updated(ReplaceAllProperty(content, 1, property_name, new_value), updated_props)

\* changed |= update_property_value(&mut xml_data, name, value, &mut updated_props)
OrChanged(changed, p) ==
    [content |-> p.content, updated_props |-> p.updated_props,
     changed |-> changed \/ p.did_change]

ApplyProperty(acc, property_name, new_value) ==
    OrChanged(acc.changed,
              update_property_value(acc.content, property_name, new_value,
                                    acc.updated_props))

\* the four passes of update_pom_xml_summary, in the order of the source
UpdateProperties(xml_data, runtime_version, plugin_version, munit_version) ==
    ApplyProperty(
        ApplyProperty(
            ApplyProperty(
                ApplyProperty([content |-> xml_data, updated_props |-> <<>>,
                               changed |-> FALSE],
                              MULE_VERSION, runtime_version),
                MUNIT_VERSION, munit_version),
            MULE_MAVEN_PLUGIN_VERSION, plugin_version),
        APP_RUNTIME, runtime_version)

\* xml.rs 136-139: the backup copy
BackupPom(d, flt, path, backup) ==
    IF backup THEN fs_copy(d, flt, path, BackupPath(path)) ELSE d

\* xml.rs 140-142: the write; a failed expect() before it has ended the process
WritePom(d, flt, path, content, dry_run) ==
    IF d.ok /\ ~dry_run THEN fs_write(d, flt, path, content) ELSE d

\* xml.rs 135-143
PersistPom(d, flt, path, u, dry_run, backup) ==
    IF u.changed
    THEN WritePom(BackupPom(d, flt, path, backup), flt, path, u.content, dry_run)
    ELSE d

PomReturn(d, u) ==
    [fs |-> d.fs, io |-> d.io, panic |-> ~d.ok,
     changed |-> u.changed, props |-> u.updated_props]

PomOutcome(tree, flt, path, u, dry_run, backup) ==
    PomReturn(PersistPom(Disk(tree), flt, path, u, dry_run, backup), u)

\* outcome of update_pom_xml_summary: the new tree, the file operations,
\* whether an expect() panicked, and the pair it returns
update_pom_xml_summary(tree, flt, path, runtime_version, plugin_version, munit_version, dry_run, backup) ==
    IF Fails(flt, "read", path)
    THEN [fs |-> tree, io |-> <<>>, panic |-> TRUE, changed |-> FALSE, props |-> <<>>]
    ELSE PomOutcome(tree, flt, path,
                    UpdateProperties(tree[path], runtime_version, plugin_version,
                                     munit_version),
                    dry_run, backup)

(***************************************************************************)
(* json_ops.rs: serde_json values, from_str, Display and to_string_pretty  *)
(***************************************************************************)
QUOTE == Ch("\"")
Word(w) == <<Ch(w)>>

JStr(c) == [t |-> "str", s |-> c, items |-> <<>>, members |-> <<>>]
JLit(w) == [t |-> "lit", s |-> <<Ch(w)>>, items |-> <<>>, members |-> <<>>]
JArr(xs) == [t |-> "arr", s |-> <<>>, items |-> xs, members |-> <<>>]
JObj(f) == [t |-> "obj", s |-> <<>>, items |-> <<>>, members |-> f]

JsonLiterals == {"null", "true", "false", "8"}

MIN_MULE_VERSION == Word("minMuleVersion")
REQUIRED_PRODUCT == Word("requiredProduct")
JAVA_SPECIFICATION_VERSIONS == Word("javaSpecificationVersions")
NAME_KEY == Word("name")

\* serde_json::Map is a BTreeMap: members are kept in key order
KeyOrder == <<JAVA_SPECIFICATION_VERSIONS, MIN_MULE_VERSION, NAME_KEY, REQUIRED_PRODUCT>>
KeyRank(key) ==
    IF \E i \in 1..Len(KeyOrder) : KeyOrder[i] = key
    THEN CHOOSE i \in 1..Len(KeyOrder) : KeyOrder[i] = key
    ELSE Len(KeyOrder) + 1

FirstKey(keys) == CHOOSE x \in keys : \A y \in keys : KeyRank(x) <= KeyRank(y)

RECURSIVE SortKeys(_)
SortKeys(keys) ==
    IF keys = {} THEN <<>>
    ELSE <<FirstKey(keys)>> \o SortKeys(keys \ {FirstKey(keys)})

Insert(f, key, val) ==
    [x \in (DOMAIN f) \cup {key} |-> IF x = key THEN val ELSE f[x]]

ParseFail == [ok |-> FALSE, val |-> JLit("null"), next |-> 0]
ParseOk(val, next) == [ok |-> TRUE, val |-> val, next |-> next]

NotWhitespace(sym) == ~IsWhitespace(sym)
IsQuote(sym) == sym = QUOTE

SkipWs(toks, i) == FirstOf({j \in i..Len(toks) : NotWhitespace(toks[j])}, Len(toks) + 1)
ClosingQuote(toks, i) == FirstOf({j \in i..Len(toks) : IsQuote(toks[j])}, Len(toks) + 1)

At(toks, i, sym) == i >= 1 /\ i <= Len(toks) /\ toks[i] = sym

\* a string whose opening quote is at j and whose closing quote is at q;
\* a raw newline inside a string is an error
StringAt(toks, j, q) ==
    IF q > Len(toks) \/ Ch("\n") \in Range(SubSeq(toks, j + 1, q - 1))
    THEN ParseFail
    ELSE ParseOk(JStr(SubSeq(toks, j + 1, q - 1)), q + 1)

ParseString(toks, j) == StringAt(toks, j, ClosingQuote(toks, j + 1))

RECURSIVE ParseValue(_, _)
RECURSIVE ValueAt(_, _)
RECURSIVE ParseItems(_, _, _)
RECURSIVE ItemThen(_, _, _)
RECURSIVE ParseMembers(_, _, _)
RECURSIVE KeyThen(_, _, _)
RECURSIVE MemberThen(_, _, _, _)

ParseValue(toks, i) == ValueAt(toks, SkipWs(toks, i))

\* the value that starts at the non-blank position j
ValueAt(toks, j) ==
    IF j > Len(toks) THEN ParseFail
    ELSE IF toks[j] = QUOTE THEN ParseString(toks, j)
    ELSE IF toks[j] = Ch("[")
         THEN IF At(toks, SkipWs(toks, j + 1), Ch("]"))
              THEN ParseOk(JArr(<<>>), SkipWs(toks, j + 1) + 1)
              ELSE ParseItems(toks, j + 1, <<>>)
    ELSE IF toks[j] = Ch("{")
         THEN IF At(toks, SkipWs(toks, j + 1), Ch("}"))
              THEN ParseOk(JObj(<<>>), SkipWs(toks, j + 1) + 1)
              ELSE ParseMembers(toks, j + 1, <<>>)
    ELSE IF toks[j].k = "c" /\ toks[j].n[1] \in JsonLiterals
         THEN ParseOk(JLit(toks[j].n[1]), j + 1)
    ELSE ParseFail

ParseItems(toks, i, acc) == ItemThen(toks, ParseValue(toks, i), acc)

\* after the item v: a comma and more items, or the closing bracket
ItemThen(toks, v, acc) ==
    IF ~v.ok THEN ParseFail
    ELSE IF At(toks, SkipWs(toks, v.next), Ch(","))
         THEN ParseItems(toks, SkipWs(toks, v.next) + 1, Append(acc, v.val))
    ELSE IF At(toks, SkipWs(toks, v.next), Ch("]"))
         THEN ParseOk(JArr(Append(acc, v.val)), SkipWs(toks, v.next) + 1)
    ELSE ParseFail

ParseMembers(toks, i, f) ==
    IF At(toks, SkipWs(toks, i), QUOTE)
    THEN KeyThen(toks, ParseString(toks, SkipWs(toks, i)), f)
    ELSE ParseFail

\* after the key: a colon and the value
KeyThen(toks, key, f) ==
    IF key.ok /\ At(toks, SkipWs(toks, key.next), Ch(":"))
    THEN MemberThen(toks, key.val.s, ParseValue(toks, SkipWs(toks, key.next) + 1), f)
    ELSE ParseFail

\* after the member: a comma and more members, or the closing brace; a
\* repeated key keeps the last value
MemberThen(toks, key, v, f) ==
    IF ~v.ok THEN ParseFail
    ELSE IF At(toks, SkipWs(toks, v.next), Ch(","))
         THEN ParseMembers(toks, SkipWs(toks, v.next) + 1, Insert(f, key, v.val))
    ELSE IF At(toks, SkipWs(toks, v.next), Ch("}"))
         THEN ParseOk(JObj(Insert(f, key, v.val)), SkipWs(toks, v.next) + 1)
    ELSE ParseFail

\* serde_json::from_str: one value, then nothing but whitespace
Complete(toks, r) ==
    IF r.ok /\ SkipWs(toks, r.next) > Len(toks) THEN r ELSE ParseFail

from_str(toks) == Complete(toks, ParseValue(toks, 1))

RECURSIVE Indent(_)
Indent(d) == IF d = 0 THEN <<>> ELSE <<Ch(" "), Ch(" ")>> \o Indent(d - 1)

Comma(i) == IF i > 1 THEN <<Ch(",")>> ELSE <<>>

\* Display of a Value: the compact serialisation
RECURSIVE to_string(_)
RECURSIVE CompactItems(_, _)
RECURSIVE CompactMembers(_, _, _)
to_string(v) ==
    IF v.t = "str" THEN <<QUOTE>> \o v.s \o <<QUOTE>>
    ELSE IF v.t = "lit" THEN v.s
    ELSE IF v.t = "arr" THEN <<Ch("[")>> \o CompactItems(v.items, 1) \o <<Ch("]")>>
    ELSE <<Ch("{")>> \o CompactMembers(v.members, SortKeys(DOMAIN v.members), 1)
             \o <<Ch("}")>>

CompactItems(xs, i) ==
    IF i > Len(xs) THEN <<>>
    ELSE Comma(i) \o to_string(xs[i]) \o CompactItems(xs, i + 1)

CompactMembers(f, keys, i) ==
    IF i > Len(keys) THEN <<>>
    ELSE Comma(i) \o <<QUOTE>> \o keys[i] \o <<QUOTE, Ch(":")>> \o to_string(f[keys[i]])
         \o CompactMembers(f, keys, i + 1)

\* serde_json::to_string_pretty: two-space indent, one item per line
RECURSIVE Pretty(_, _)
RECURSIVE PrettyItems(_, _, _)
RECURSIVE PrettyMembers(_, _, _, _)
Pretty(v, d) ==
    IF v.t = "str" THEN <<QUOTE>> \o v.s \o <<QUOTE>>
    ELSE IF v.t = "lit" THEN v.s
    ELSE IF v.t = "arr"
         THEN IF v.items = <<>> THEN <<Ch("["), Ch("]")>>
              ELSE <<Ch("[")>> \o PrettyItems(v.items, 1, d + 1)
                   \o <<Ch("\n")>> \o Indent(d) \o <<Ch("]")>>
    ELSE IF DOMAIN v.members = {} THEN <<Ch("{"), Ch("}")>>
         ELSE <<Ch("{")>> \o PrettyMembers(v.members, SortKeys(DOMAIN v.members), 1, d + 1)
              \o <<Ch("\n")>> \o Indent(d) \o <<Ch("}")>>

PrettyItems(xs, i, d) ==
    IF i > Len(xs) THEN <<>>
    ELSE Comma(i) \o <<Ch("\n")>> \o Indent(d) \o Pretty(xs[i], d)
         \o PrettyItems(xs, i + 1, d)

PrettyMembers(f, keys, i, d) ==
    IF i > Len(keys) THEN <<>>
    ELSE Comma(i) \o <<Ch("\n")>> \o Indent(d)
         \o <<QUOTE>> \o keys[i] \o <<QUOTE, Ch(":"), Ch(" ")>> \o Pretty(f[keys[i]], d)
         \o PrettyMembers(f, keys, i + 1, d)

to_string_pretty(v) == Pretty(v, 0)

(***************************************************************************)
(* json_ops.rs: update_mule_artifact_json_summary                          *)
(***************************************************************************)
JavaVersionsValue(java_spec_versions) ==
    JArr([i \in 1..Len(java_spec_versions) |-> JStr(java_spec_versions[i])])

MinMuleVersionDescription(v, min_mule_version) ==
    [field |-> "minMuleVersion", old |-> to_string(v), new |-> min_mule_version]

JavaVersionsDescription ==
    [field |-> "requiredProduct.javaSpecificationVersions", old |-> <<>>, new |-> <<>>]

\* the comparison made on the rendered JSON text of the old value, which
\* carries the quotes of a string
UpdateMinMuleVersionRendered(acc, min_mule_version) ==
    IF /\ MIN_MULE_VERSION \in DOMAIN acc.members
       /\ to_string(acc.members[MIN_MULE_VERSION]) # min_mule_version
    THEN [members |-> Insert(acc.members, MIN_MULE_VERSION, JStr(min_mule_version)),
          updated_fields |-> Append(acc.updated_fields,
              MinMuleVersionDescription(acc.members[MIN_MULE_VERSION], min_mule_version)),
          changed |-> TRUE]
    ELSE acc

\* json_ops.rs 92-98 on the members of the root object
UpdateMinMuleVersion(acc, min_mule_version) ==
    IF /\ MIN_MULE_VERSION \in DOMAIN acc.members
       /\ acc.members[MIN_MULE_VERSION] # JStr(min_mule_version)
    THEN [members |-> Insert(acc.members, MIN_MULE_VERSION, JStr(min_mule_version)),
          updated_fields |-> Append(acc.updated_fields,
              MinMuleVersionDescription(acc.members[MIN_MULE_VERSION], min_mule_version)),
          changed |-> TRUE]
    ELSE acc

HasJavaVersions(members) ==
    /\ REQUIRED_PRODUCT \in DOMAIN members
    /\ members[REQUIRED_PRODUCT].t = "obj"
    /\ JAVA_SPECIFICATION_VERSIONS \in DOMAIN members[REQUIRED_PRODUCT].members

\* the field replaced without the push of its description
UpdateJavaVersionsUnrecorded(acc, new_val) ==
    IF /\ HasJavaVersions(acc.members)
       /\ acc.members[REQUIRED_PRODUCT].members[JAVA_SPECIFICATION_VERSIONS] # new_val
    THEN [members |-> Insert(acc.members, REQUIRED_PRODUCT,
                          JObj(Insert(acc.members[REQUIRED_PRODUCT].members,
                                      JAVA_SPECIFICATION_VERSIONS, new_val))),
          updated_fields |-> acc.updated_fields,
          changed |-> TRUE]
    ELSE acc

\* json_ops.rs 99-116 on the members of the root object
UpdateJavaVersions(acc, new_val) ==
    IF /\ HasJavaVersions(acc.members)
       /\ acc.members[REQUIRED_PRODUCT].members[JAVA_SPECIFICATION_VERSIONS] # new_val
    THEN [members |-> Insert(acc.members, REQUIRED_PRODUCT,
                          JObj(Insert(acc.members[REQUIRED_PRODUCT].members,
                                      JAVA_SPECIFICATION_VERSIONS, new_val))),
          updated_fields |-> Append(acc.updated_fields, JavaVersionsDescription),
          changed |-> TRUE]
    ELSE acc

FieldsResult(acc) ==
    [json_data |-> JObj(acc.members), updated_fields |-> acc.updated_fields,
     changed |-> acc.changed]

\* json_ops.rs 91-117
UpdateFields(json_data, min_mule_version, java_spec_versions) ==
    IF json_data.t = "obj"
    THEN FieldsResult(
             UpdateJavaVersions(
                 UpdateMinMuleVersion([members |-> json_data.members,
                                       updated_fields |-> <<>>, changed |-> FALSE],
                                      min_mule_version),
                 JavaVersionsValue(java_spec_versions)))
    ELSE [json_data |-> json_data, updated_fields |-> <<>>, changed |-> FALSE]

\* json_ops.rs 119-122: the backup copy
BackupArtifact(d, flt, path, backup) ==
    IF backup THEN fs_copy(d, flt, path, BackupPath(path)) ELSE d

\* json_ops.rs 123-126: the write; a failed expect() before it has ended the process
WriteArtifact(d, flt, path, json_data, dry_run) ==
    IF d.ok /\ ~dry_run THEN fs_write(d, flt, path, to_string_pretty(json_data)) ELSE d

\* json_ops.rs 118-127
PersistArtifact(d, flt, path, u, dry_run, backup) ==
    IF u.changed
    THEN WriteArtifact(BackupArtifact(d, flt, path, backup), flt, path, u.json_data, dry_run)
    ELSE d

ArtifactReturn(d, u) ==
    [fs |-> d.fs, io |-> d.io, panic |-> ~d.ok,
     changed |-> u.changed, fields |-> u.updated_fields]

ArtifactOutcome(tree, flt, path, u, dry_run, backup) ==
    ArtifactReturn(PersistArtifact(Disk(tree), flt, path, u, dry_run, backup), u)

\* the document is parsed under expect("Invalid JSON")
ArtifactParsed(tree, flt, path, parsed, min_mule_version, java_spec_versions, dry_run, backup) ==
    IF ~parsed.ok
    THEN [fs |-> tree, io |-> <<>>, panic |-> TRUE, changed |-> FALSE, fields |-> <<>>]
    ELSE ArtifactOutcome(tree, flt, path,
                         UpdateFields(parsed.val, min_mule_version, java_spec_versions),
                         dry_run, backup)

update_mule_artifact_json_summary(tree, flt, path, min_mule_version, java_spec_versions, dry_run, backup) ==
    IF Fails(flt, "read", path)
    THEN [fs |-> tree, io |-> <<>>, panic |-> TRUE, changed |-> FALSE, fields |-> <<>>]
    ELSE ArtifactParsed(tree, flt, path, from_str(tree[path]), min_mule_version,
                        java_spec_versions, dry_run, backup)

(***************************************************************************)
(* file_ops.rs: traverse_and_replace_summary                               *)
(***************************************************************************)
ALLOWED_EXTENSIONS ==
    {"xml", "yaml", "yml", "properties", "txt", "java", "groovy", "json"}

ReplacementDescription(path, from, to) == [path |-> path, from |-> from, to |-> to]

\* the loop left at the first rule that matches
ApplyRulesUntilMatch(path, content, replacements, i, summary, changed) ==
    IF \A k \in i..Len(replacements) : ~Contains(content, replacements[k].from)
    THEN [content |-> content, summary |-> summary, changed |-> changed]
    ELSE [content |-> Replace(content,
                         replacements[Min({k \in i..Len(replacements) :
                                             Contains(content, replacements[k].from)})].from,
                         replacements[Min({k \in i..Len(replacements) :
                                             Contains(content, replacements[k].from)})].to),
          summary |-> Append(summary, ReplacementDescription(path,
                         replacements[Min({k \in i..Len(replacements) :
                                             Contains(content, replacements[k].from)})].from,
                         replacements[Min({k \in i..Len(replacements) :
                                             Contains(content, replacements[k].from)})].to)),
          changed |-> TRUE]

\* file_ops.rs 115-121: the loop over the rules on the content of one file
RECURSIVE ApplyRules(_, _, _, _, _, _)
ApplyRules(path, content, replacements, i, summary, changed) ==
    IF i > Len(replacements)
    THEN [content |-> content, summary |-> summary, changed |-> changed]
    ELSE IF Contains(content, replacements[i].from)
         THEN ApplyRules(path,
                  Replace(content, replacements[i].from, replacements[i].to),
                  replacements, i + 1,
                  Append(summary, ReplacementDescription(path, replacements[i].from,
                                                         replacements[i].to)),
                  TRUE)
         ELSE ApplyRules(path, content, replacements, i + 1, summary, changed)

\* file_ops.rs 123-126: fs::copy(..).ok()
BackupReplaced(d, flt, path, backup) ==
    IF backup THEN DropResult(fs_copy(d, flt, path, BackupPath(path))) ELSE d

\* file_ops.rs 127-129: fs::write(..).ok()
WriteReplaced(d, flt, path, content, dry_run) ==
    IF ~dry_run THEN DropResult(fs_write(d, flt, path, content)) ELSE d

\* the backup and the write made without looking at `changed`
PersistReplacedAlways(d, flt, path, r, dry_run, backup) ==
    WriteReplaced(BackupReplaced(d, flt, path, backup), flt, path, r.content, dry_run)

\* file_ops.rs 122-130
PersistReplaced(d, flt, path, r, dry_run, backup) ==
    IF r.changed
    THEN WriteReplaced(BackupReplaced(d, flt, path, backup), flt, path, r.content, dry_run)
    ELSE d

Replaced(acc, d, r) ==
    [fs |-> d.fs, io |-> acc.io \o d.io, summary |-> acc.summary \o r.summary]

ReplacedOutcome(acc, flt, path, r, dry_run, backup) ==
    Replaced(acc, PersistReplaced(Disk(acc.fs), flt, path, r, dry_run, backup), r)

\* the body of the walk for one entry; a file that cannot be read is skipped
ReplaceInFile(acc, flt, path, replacements, dry_run, backup) ==
    IF Fails(flt, "read", path)
    THEN acc
    ELSE ReplacedOutcome(acc, flt, path,
                         ApplyRules(path, acc.fs[path], replacements, 1, <<>>, FALSE),
                         dry_run, backup)

\* WalkDir yields the entries in directory order; the model fixes one order
RECURSIVE SetToSeq(_)
SetToSeq(S) ==
    IF S = {} THEN <<>>
    ELSE <<CHOOSE y \in S : TRUE>> \o SetToSeq(S \ {CHOOSE y \in S : TRUE})

WalkDir(tree) == SetToSeq({p \in DOMAIN tree : Extension(p) \in ALLOWED_EXTENSIONS})

RECURSIVE TraverseFrom(_, _, _, _, _, _, _)
TraverseFrom(acc, flt, entries, i, replacements, dry_run, backup) ==
    IF i > Len(entries) THEN acc
    ELSE TraverseFrom(ReplaceInFile(acc, flt, entries[i], replacements, dry_run, backup),
                      flt, entries, i + 1, replacements, dry_run, backup)

traverse_and_replace_summary(tree, flt, replacements, dry_run, backup) ==
    TraverseFrom([fs |-> tree, io |-> <<>>, summary |-> <<>>], flt, WalkDir(tree), 1,
                 replacements, dry_run, backup)

(***************************************************************************)
(* lib.rs, main.rs: the state of one invocation of the tool                *)
(***************************************************************************)
VARIABLES
    fs,                    \* the project tree: path -> content
    fault,                 \* the I/O failure of the environment, if any
    config_file,           \* [status, value]: the file behind opts.config_path
    opts,                  \* MigrationOptions
    pc,                    \* position in main / run_migration
    invocation,            \* "first", or "second" once the tool was started again
    changed_files,
    changed_properties,
    changed_json,
    replacements_summary,
    errors,
    printed,               \* the arguments of each call of print_summary
    result,                \* what run_migration returned, or that it panicked
    exit_code,             \* -1 while the process runs
    trace,                 \* the steps executed, in order
    io_log,                \* the file operations of the tool in this invocation
    fs_start,              \* the tree when this invocation started
    build_saw,             \* the tree the build command was started on
    previous               \* the tree and the lists at the end of the previous invocation

vars == <<fs, fault, config_file, opts, pc, invocation, changed_files, changed_properties,
          changed_json, replacements_summary, errors, printed, result, exit_code,
          trace, io_log, fs_start, build_saw, previous>>

NotMuleProjectMsg(project_root) ==
    <<"'", project_root, "' is not a Mule project (", "pom.xml", " or ",
      "mule-artifact.json", " missing)">>
NoPomMsg == <<"No pom.xml found at ", "pom.xml">>
NoArtifactMsg == <<"No mule-artifact.json found at ", "mule-artifact.json">>
ConfigErrorMsg(status) == <<"config: ", status>>

NoResult == [kind |-> "none", msg |-> <<>>]
Ok == [kind |-> "ok", msg |-> <<>>]
Err(msg) == [kind |-> "err", msg |-> msg]
Panicked == [kind |-> "panic", msg |-> <<>>]

Step(name) == [step |-> name, outcome |-> "-"]
Command(name, outcome) == [step |-> name, outcome |-> outcome]

MvnOutcomes == {"success", "failed_status", "spawn_error"}

\* 'mvn versions:use-latest-releases' leaves a pom.xml.versionsBackup behind
\* when it ran; the dependency versions it edits are not part of the model
MvnVersions(tree, outcome) ==
    IF outcome = "success" /\ Exists(tree, POM_XML)
    THEN WriteFile(tree, VERSIONS_BACKUP, tree[POM_XML])
    ELSE tree

is_mule_project(tree) == Exists(tree, POM_XML) /\ Exists(tree, MULE_ARTIFACT_JSON)

\* the in-memory lists of run_migration together with the tree
Memory ==
    [fs |-> fs, io |-> io_log, panic |-> FALSE,
     changed_files |-> changed_files,
     changed_properties |-> changed_properties,
     changed_json |-> changed_json,
     replacements_summary |-> replacements_summary,
     errors |-> errors]

EmptyMemory(tree) ==
    [fs |-> tree, io |-> <<>>, panic |-> FALSE,
     changed_files |-> <<>>, changed_properties |-> <<>>, changed_json |-> <<>>,
     replacements_summary |-> <<>>, errors |-> <<>>]

\* lib.rs 89-92; nothing is pushed when the call panicked
PomPushed(m, r) ==
    [m EXCEPT !.fs = r.fs, !.io = @ \o r.io, !.panic = r.panic,
              !.changed_files = IF r.changed /\ ~r.panic THEN Append(@, POM_XML) ELSE @,
              !.changed_properties = IF r.changed /\ ~r.panic THEN @ \o r.props ELSE @]

\* lib.rs 77-97
PomStep(m, flt, config, o) ==
    IF Exists(m.fs, POM_XML)
    THEN PomPushed(m, update_pom_xml_summary(m.fs, flt, POM_XML,
                          config.app_runtime_version, config.mule_maven_plugin_version,
                          config.munit_version, o.dry_run, o.backup))
    ELSE [m EXCEPT !.errors = Append(@, NoPomMsg)]

\* lib.rs 110-113; nothing is pushed when the call panicked
ArtifactPushed(m, r) ==
    [m EXCEPT !.fs = r.fs, !.io = @ \o r.io, !.panic = r.panic,
              !.changed_files = IF r.changed /\ ~r.panic
                                THEN Append(@, MULE_ARTIFACT_JSON) ELSE @,
              !.changed_json = IF r.changed /\ ~r.panic THEN @ \o r.fields ELSE @]

\* lib.rs 99-118
ArtifactStep(m, flt, config, o) ==
    IF Exists(m.fs, MULE_ARTIFACT_JSON)
    THEN ArtifactPushed(m, update_mule_artifact_json_summary(m.fs, flt,
                               MULE_ARTIFACT_JSON,
                               config.mule_artifact.min_mule_version,
                               config.mule_artifact.java_specification_versions,
                               o.dry_run, o.backup))
    ELSE [m EXCEPT !.errors = Append(@, NoArtifactMsg)]

\* lib.rs 132
ReplacementsPushed(m, r) ==
    [m EXCEPT !.fs = r.fs, !.io = @ \o r.io, !.replacements_summary = @ \o r.summary]

\* lib.rs 120-132
ReplaceStep(m, flt, config, o) ==
    ReplacementsPushed(m, traverse_and_replace_summary(m.fs, flt, config.replacements,
                                                       o.dry_run, o.backup))

SummaryArgs(m, dry_run) ==
    [changed_files |-> m.changed_files,
     changed_properties |-> m.changed_properties,
     changed_json |-> m.changed_json,
     replacements_summary |-> m.replacements_summary,
     errors |-> m.errors,
     dry_run |-> dry_run]

Store(m) ==
    /\ fs' = m.fs
    /\ io_log' = m.io
    /\ changed_files' = m.changed_files
    /\ changed_properties' = m.changed_properties
    /\ changed_json' = m.changed_json
    /\ replacements_summary' = m.replacements_summary
    /\ errors' = m.errors

Env == <<fault, config_file, opts, invocation, fs_start, previous>>

(***************************************************************************)
(* run_migration, step by step                                             *)
(***************************************************************************)
\* lib.rs 47-64
Validate ==
    /\ pc = "validate"
    /\ IF is_mule_project(fs)
       THEN /\ pc' = "load_config"
            /\ UNCHANGED <<errors, printed, result>>
       ELSE /\ errors' = Append(errors, NotMuleProjectMsg(opts.project_root))
            /\ printed' = Append(printed,
                   SummaryArgs([Memory EXCEPT !.errors =
                                   Append(@, NotMuleProjectMsg(opts.project_root))],
                               opts.dry_run))
            /\ result' = Err(NotMuleProjectMsg(opts.project_root))
            /\ pc' = "returned"
    /\ trace' = IF is_mule_project(fs) THEN trace ELSE Append(trace, Step("print_summary"))
    /\ UNCHANGED <<fs, io_log, changed_files, changed_properties, changed_json,
                   replacements_summary, exit_code, build_saw, Env>>

\* a configuration that cannot be loaded replaced by the one at hand
LoadConfigOrDefault ==
    /\ pc = "load_config"
    /\ pc' = "update_maven_deps"
    /\ UNCHANGED <<fs, io_log, changed_files, changed_properties, changed_json,
                   replacements_summary, errors, printed, result, exit_code, trace,
                   build_saw, Env>>

\* lib.rs 65-66, config.rs 27-31
LoadConfig ==
    /\ pc = "load_config"
    /\ IF config_file.status = "ok"
       THEN pc' = "update_maven_deps" /\ UNCHANGED result
       ELSE pc' = "returned" /\ result' = Err(ConfigErrorMsg(config_file.status))
    /\ UNCHANGED <<fs, io_log, changed_files, changed_properties, changed_json,
                   replacements_summary, errors, printed, exit_code, trace,
                   build_saw, Env>>

\* lib.rs 69-71 and 146-169
UpdateMavenDependencies ==
    /\ pc = "update_maven_deps"
    /\ pc' = "build"
    /\ IF opts.update_maven_deps
       THEN \E outcome \in MvnOutcomes :
              /\ fs' = RemoveFile(fs, VERSIONS_BACKUP)
              /\ io_log' = IF Exists(MvnVersions(fs, outcome), VERSIONS_BACKUP)
                           THEN Append(io_log, [op |-> "remove", path |-> VERSIONS_BACKUP])
                           ELSE io_log
              /\ trace' = Append(trace, Command("update_maven_dependencies", outcome))
       ELSE UNCHANGED <<fs, io_log, trace>>
    /\ UNCHANGED <<changed_files, changed_properties, changed_json,
                   replacements_summary, errors, printed, result, exit_code,
                   build_saw, Env>>

\* lib.rs 73-75 and 172-184
BuildMuleProject ==
    /\ pc = "build"
    /\ pc' = "update_pom"
    /\ IF opts.build_mule_project
       THEN \E outcome \in MvnOutcomes :
              /\ trace' = Append(trace, Command("build_mule_project", outcome))
              /\ build_saw' = <<fs>>
       ELSE UNCHANGED <<trace, build_saw>>
    /\ UNCHANGED <<fs, io_log, changed_files, changed_properties, changed_json,
                   replacements_summary, errors, printed, result, exit_code, Env>>

\* a step of run_migration that may panic inside an expect()
RunStep(m, name, next) ==
    /\ Store(m)
    /\ trace' = Append(trace, Step(name))
    /\ IF m.panic
       THEN pc' = "exited" /\ result' = Panicked /\ exit_code' = 101
       ELSE pc' = next /\ UNCHANGED <<result, exit_code>>
    /\ UNCHANGED <<printed, build_saw, Env>>

\* lib.rs 77-97
UpdatePom ==
    /\ pc = "update_pom"
    /\ RunStep(PomStep(Memory, fault, config_file.value, opts),
               "update_pom_xml", "update_artifact")

\* lib.rs 99-118
UpdateArtifact ==
    /\ pc = "update_artifact"
    /\ RunStep(ArtifactStep(Memory, fault, config_file.value, opts),
               "update_mule_artifact_json", "replace")

\* lib.rs 120-132
TraverseAndReplace ==
    /\ pc = "replace"
    /\ RunStep(ReplaceStep(Memory, fault, config_file.value, opts),
               "traverse_and_replace", "report")

\* lib.rs 134-142
Report ==
    /\ pc = "report"
    /\ printed' = Append(printed, SummaryArgs(Memory, opts.dry_run))
    /\ trace' = Append(trace, Step("print_summary"))
    /\ result' = Ok
    /\ pc' = "returned"
    /\ UNCHANGED <<fs, io_log, changed_files, changed_properties, changed_json,
                   replacements_summary, errors, exit_code, build_saw, Env>>

\* main.rs 44-48
MainExit ==
    /\ pc = "returned"
    /\ exit_code' = IF result.kind = "err" THEN 1 ELSE 0
    /\ pc' = "exited"
    /\ UNCHANGED <<fs, io_log, changed_files, changed_properties, changed_json,
                   replacements_summary, errors, printed, result, trace,
                   build_saw, Env>>

\* the user starts the tool again with the same command line
Rerun ==
    /\ pc = "exited"
    /\ invocation = "first"
    /\ invocation' = "second"
    /\ previous' = <<[fs |-> fs, result |-> result, args |-> SummaryArgs(Memory, opts.dry_run)]>>
    /\ fs_start' = fs
    /\ pc' = "validate"
    /\ changed_files' = <<>>
    /\ changed_properties' = <<>>
    /\ changed_json' = <<>>
    /\ replacements_summary' = <<>>
    /\ errors' = <<>>
    /\ printed' = <<>>
    /\ result' = NoResult
    /\ exit_code' = -1
    /\ trace' = <<>>
    /\ io_log' = <<>>
    /\ build_saw' = <<>>
    /\ UNCHANGED <<fs, fault, config_file, opts>>

Next ==
    \/ Validate
    \/ LoadConfig
    \/ UpdateMavenDependencies
    \/ BuildMuleProject
    \/ UpdatePom
    \/ UpdateArtifact
    \/ TraverseAndReplace
    \/ Report
    \/ MainExit
    \/ Rerun

(***************************************************************************)
(* The trees, configurations and command lines the model starts from.      *)
(***************************************************************************)
RECURSIVE SeqsUpTo(_, _)
SeqsUpTo(S, n) ==
    IF n = 0 THEN {<<>>}
    ELSE LET shorter == SeqsUpTo(S, n - 1)
         IN shorter \cup {Append(q, x) : q \in shorter, x \in S}

RECURSIVE Flatten(_)
Flatten(ss) == IF ss = <<>> THEN <<>> ELSE Head(ss) \o Flatten(Tail(ss))

MULE_X_VERSION == <<"m","u","l","e","X","v","e","r","s","i","o","n">>
PROPERTIES == <<"p","r","o","p","e","r","t","i","e","s">>

Element(name, value) == <<Open(name)>> \o value \o <<Close(name)>>

PomElements ==
    { Element(MULE_VERSION, Word("4.3.0")),
      Element(MULE_VERSION, <<Ch(" "), Ch("4.9.4"), Ch("\n")>>),
      Element(MULE_X_VERSION, Word("1")),
      Element(APP_RUNTIME, Word("4.3.0")) }

PomFile(elements) == Element(PROPERTIES, Flatten(elements))
PomFiles == {PomFile(es) : es \in SeqsUpTo(PomElements, MaxPomElems)}
OutdatedPom == PomFile(<<Element(MULE_VERSION, Word("4.3.0"))>>)

ArtifactValue(min_mule_version, java_versions) ==
    JObj(Insert(Insert(<<>>, MIN_MULE_VERSION, JStr(min_mule_version)),
                REQUIRED_PRODUCT,
                JObj(Insert(<<>>, JAVA_SPECIFICATION_VERSIONS,
                            JavaVersionsValue(java_versions)))))

OutdatedArtifact == to_string(ArtifactValue(Word("4.3.0"), <<Word("8")>>))
CurrentArtifact == to_string_pretty(ArtifactValue(Word("4.9.4"), <<Word("17")>>))
OtherArtifact ==
    to_string(JObj(Insert(Insert(<<>>, NAME_KEY, JStr(Word("app"))),
                          MIN_MULE_VERSION, JLit("8"))))
InvalidArtifact == <<Ch("{"), QUOTE, Ch("minMuleVersion"), QUOTE>>
\* documents in which one of the two fields is absent or already as desired
JavaOnlyArtifact ==
    to_string(JObj(Insert(<<>>, REQUIRED_PRODUCT,
                          JObj(Insert(<<>>, JAVA_SPECIFICATION_VERSIONS,
                                      JavaVersionsValue(<<Word("8")>>))))))
OutdatedJavaArtifact == to_string(ArtifactValue(Word("4.9.4"), <<Word("8")>>))
OutdatedMinArtifact == to_string(ArtifactValue(Word("4.3.0"), <<Word("17")>>))
ArtifactFiles ==
    {OutdatedArtifact, CurrentArtifact, OtherArtifact, InvalidArtifact,
     JavaOnlyArtifact, OutdatedJavaArtifact, OutdatedMinArtifact}

FlowFiles == {<<Ch("foo"), Ch("a"), Ch("foo")>>, <<Ch("a")>>}
DefaultFlow == <<Ch("foo"), Ch("a"), Ch("foo")>>

Rule(from, to) == [from |-> from, to |-> to]
Rules ==
    { Rule(Word("foo"), Word("bar")),
      Rule(Word("bar"), <<Ch("bar"), Ch("bar")>>),
      Rule(Word("4.9.4"), Word("4.3.0")) }
RuleLists == SeqsUpTo(Rules, MaxRules)
SingleRules == {<<>>} \cup {<<rule>> : rule \in Rules}
DefaultRules == <<Rule(Word("foo"), Word("bar")), Rule(Word("4.3.0"), Word("4.9.9"))>>

RuntimeVersions == {Word("4.9.4"), <<Ch("4.9.4"), Ch(" ")>>}

MigrationConfig(runtime_version, replacements) ==
    [app_runtime_version |-> runtime_version,
     mule_maven_plugin_version |-> Word("4.3.1"),
     munit_version |-> Word("3.4.0"),
     mule_artifact |-> [min_mule_version |-> Word("4.9.4"),
                        java_specification_versions |-> <<Word("17")>>],
     replacements |-> replacements]

MigrationOptions(dry_run, backup, update_maven_deps, build_mule_project) ==
    [project_root |-> ".", dry_run |-> dry_run, backup |-> backup,
     update_maven_deps |-> update_maven_deps,
     build_mule_project |-> build_mule_project]

Tree(pom, artifact, flow) ==
    [p \in {POM_XML, MULE_ARTIFACT_JSON, FLOW_XML} |->
        IF p = POM_XML THEN pom ELSE IF p = MULE_ARTIFACT_JSON THEN artifact ELSE flow]

Without(tree, paths) == [p \in (DOMAIN tree) \ paths |-> tree[p]]

Faults ==
    {[op |-> o, path |-> p] : o \in {"read", "copy", "write"},
                              p \in {POM_XML, MULE_ARTIFACT_JSON, FLOW_XML}}

ConfigStatuses == {"ok", "unreadable", "malformed"}

\* varied pom.xml, desired runtime version and rule
PomCases ==
    \E pom \in PomFiles, rules \in SingleRules, rv \in RuntimeVersions,
       d \in BOOLEAN, b \in BOOLEAN :
        /\ fs = Tree(pom, OutdatedArtifact, DefaultFlow)
        /\ config_file = [status |-> "ok", value |-> MigrationConfig(rv, rules)]
        /\ opts = MigrationOptions(d, b, FALSE, FALSE)
        /\ fault = NoFault

\* varied mule-artifact.json, source file and rules
ArtifactCases ==
    \E artifact \in ArtifactFiles, flow \in FlowFiles, rules \in RuleLists,
       d \in BOOLEAN, b \in BOOLEAN :
        /\ fs = Tree(OutdatedPom, artifact, flow)
        /\ config_file = [status |-> "ok", value |-> MigrationConfig(Word("4.9.4"), rules)]
        /\ opts = MigrationOptions(d, b, FALSE, FALSE)
        /\ fault = NoFault

\* varied project markers, configuration file and command line
ControlCases ==
    \E missing \in SUBSET {POM_XML, MULE_ARTIFACT_JSON}, stale \in BOOLEAN,
       status \in ConfigStatuses,
       d \in BOOLEAN, b \in BOOLEAN, u \in BOOLEAN, m \in BOOLEAN :
        /\ fs = LET t == Without(Tree(OutdatedPom, OutdatedArtifact, DefaultFlow), missing)
                IN IF stale THEN WriteFile(t, VERSIONS_BACKUP, OutdatedPom) ELSE t
        /\ config_file = [status |-> status,
                          value |-> MigrationConfig(Word("4.9.4"), DefaultRules)]
        /\ opts = MigrationOptions(d, b, u, m)
        /\ fault = NoFault

\* one failing file operation
FaultCases ==
    \E f \in Faults, d \in BOOLEAN, b \in BOOLEAN :
        /\ fs = Tree(OutdatedPom, OutdatedArtifact, DefaultFlow)
        /\ config_file = [status |-> "ok",
                          value |-> MigrationConfig(Word("4.9.4"), DefaultRules)]
        /\ opts = MigrationOptions(d, b, FALSE, FALSE)
        /\ fault = f

Init ==
    /\ PomCases \/ ArtifactCases \/ ControlCases \/ FaultCases
    /\ pc = "validate"
    /\ invocation = "first"
    /\ changed_files = <<>>
    /\ changed_properties = <<>>
    /\ changed_json = <<>>
    /\ replacements_summary = <<>>
    /\ errors = <<>>
    /\ printed = <<>>
    /\ result = NoResult
    /\ exit_code = -1
    /\ trace = <<>>
    /\ io_log = <<>>
    /\ fs_start = fs
    /\ build_saw = <<>>
    /\ previous = <<>>

Spec == Init /\ [][Next]_vars

(***************************************************************************)
(* Properties of the tool.                                                 *)
(***************************************************************************)
Exited == pc = "exited"
Completed == Exited /\ result.kind = "ok"
CommandsOff == ~opts.update_maven_deps /\ ~opts.build_mule_project
Descriptors == {POM_XML, MULE_ARTIFACT_JSON}
Visited(tree) == {p \in DOMAIN tree : Extension(p) \in ALLOWED_EXTENSIONS}

NothingReported ==
    /\ changed_files = <<>>
    /\ changed_properties = <<>>
    /\ changed_json = <<>>
    /\ replacements_summary = <<>>

DesiredValues(config) ==
    {config.app_runtime_version, config.mule_maven_plugin_version, config.munit_version}

\* the first run has settled: the desired property values carry no
\* surrounding whitespace, its bulk replace rewrote neither descriptor, and
\* no rule's 'from' occurs any more in a file the bulk replace visits
Settled ==
    /\ \A v \in DesiredValues(config_file.value) : Trim(v) = v
    /\ \A d \in Range(previous[1].args.replacements_summary) : d.path \notin Descriptors
    /\ \A p \in Visited(fs_start), rule \in Range(config_file.value.replacements) :
          ~Contains(fs_start[p], rule.from)

C2_DryRunLeavesDiskUnchanged ==
    (Exited /\ opts.dry_run /\ CommandsOff) => (fs = fs_start /\ io_log = <<>>)

\* the run of the same command line without --dry-run on the same tree
RealOpts == [opts EXCEPT !.dry_run = FALSE]
RealRun ==
    ReplaceStep(
        ArtifactStep(
            PomStep(EmptyMemory(fs_start), fault, config_file.value, RealOpts),
            fault, config_file.value, RealOpts),
        fault, config_file.value, RealOpts)

\* C3: a dry run reports the changed files, properties, JSON fields and
\* replacements that the run without the dry run would report.
C3_DryRunReportsRealRun ==
    (Completed /\ invocation = "first" /\ opts.dry_run /\ CommandsOff
               /\ fault = NoFault)
        => /\ changed_files = RealRun.changed_files
           /\ changed_properties = RealRun.changed_properties
           /\ changed_json = RealRun.changed_json
           /\ replacements_summary = RealRun.replacements_summary

\* C4: with the backup on and the dry run off, every file the run modified
\* has a .bak sibling holding the content the file had when the run started.
C4_BackupHoldsOriginal ==
    (Completed /\ invocation = "first" /\ opts.backup /\ ~opts.dry_run
               /\ CommandsOff /\ fault = NoFault)
        => \A p \in DOMAIN fs_start :
              fs[p] # fs_start[p]
                  => /\ BackupPath(p) \in DOMAIN fs
                     /\ fs[BackupPath(p)] = fs_start[p]

\* C5: when exactly one of pom.xml and mule-artifact.json is missing, the
\* run warns about the missing one, carries on with the remaining steps and
\* succeeds.
C5_OneMissingDescriptorWarns ==
    (Exited /\ Cardinality(Descriptors \cap DOMAIN fs_start) = 1
            /\ config_file.status = "ok" /\ fault = NoFault)
        => /\ exit_code = 0
           /\ NoPomMsg \in Range(errors) \/ NoArtifactMsg \in Range(errors)
           /\ Step("traverse_and_replace") \in Range(trace)

COMMANDS == {"update_maven_dependencies", "build_mule_project"}
NoCommandRun == \A i \in 1..Len(trace) : trace[i].step \notin COMMANDS
NoDescriptor == Descriptors \cap DOMAIN fs_start = {}

\* C6: when neither descriptor exists, or the configuration file cannot be
\* read or parsed, the run writes nothing, backs nothing up, starts no
\* external command, returns an error and exits non-zero; without any
\* descriptor the error names pom.xml and mule-artifact.json.
C6_FatalBeforeMutation ==
    (NoDescriptor \/ config_file.status # "ok")
        => /\ fs = fs_start
           /\ io_log = <<>>
           /\ NoCommandRun
           /\ Exited => (result.kind = "err" /\ exit_code = 1)
           /\ (Exited /\ NoDescriptor)
                 => {"pom.xml", "mule-artifact.json"} \subseteq Range(result.msg)

C6_Witness ==
    /\ Exited /\ NoDescriptor /\ config_file.status = "ok"
    /\ opts.update_maven_deps /\ opts.build_mule_project
    /\ opts.backup /\ ~opts.dry_run
    /\ exit_code = 1

\* C7: whenever the process exits non-zero, print_summary has been called
\* exactly once before it, and last of all steps.
C7_SummaryBeforeFailingExit ==
    (Exited /\ exit_code # 0 /\ fault = NoFault)
        => /\ Len(printed) = 1
           /\ trace # <<>> /\ trace[Len(trace)] = Step("print_summary")

CommandFailed ==
    \E i \in 1..Len(trace) :
        trace[i].step \in COMMANDS /\ trace[i].outcome # "success"

\* the messages run_migration pushes for a missing file
FileMessages == {NoPomMsg, NoArtifactMsg, NotMuleProjectMsg(opts.project_root)}

\* C8: when an external command fails, the run still succeeds and the
\* warnings handed to print_summary hold a message about that failure.
C8_CommandFailureSurfaced ==
    (Exited /\ CommandFailed)
        => /\ result.kind = "ok"
           /\ Len(printed) = 1
           /\ \E e \in Range(printed[1].errors) : e \notin FileMessages

MIGRATION_STEPS == {"update_pom_xml", "update_mule_artifact_json", "traverse_and_replace"}

\* C9: the build is started after the migration: the three migration steps
\* precede it, and it sees the descriptors as the run leaves them.
C9_BuildAfterMigration ==
    /\ \A i \in 1..Len(trace) :
          trace[i].step = "build_mule_project"
              => \A s \in MIGRATION_STEPS : \E j \in 1..(i - 1) : trace[j].step = s
    /\ (Completed /\ build_saw # <<>> /\ ~opts.dry_run)
          => \A p \in Descriptors : build_saw[1][p] = fs[p]

\* the text of every element of the document whose name is property_name
ElementValues(content, property_name) ==
    {SubSeq(content, a + 1, NextTag(content, a + 1) - 1) :
        a \in {b \in 1..Len(content) :
                 /\ content[b] = Open(property_name)
                 /\ NextTag(content, b + 1) <= Len(content)
                 /\ content[NextTag(content, b + 1)] = Close(property_name)}}

\* every occurrence of the four properties holds its desired value
UpToDate(content, config) ==
    /\ \A v \in ElementValues(content, MULE_VERSION) : Trim(v) = config.app_runtime_version
    /\ \A v \in ElementValues(content, APP_RUNTIME) : Trim(v) = config.app_runtime_version
    /\ \A v \in ElementValues(content, MUNIT_VERSION) : Trim(v) = config.munit_version
    /\ \A v \in ElementValues(content, MULE_MAVEN_PLUGIN_VERSION) :
          Trim(v) = config.mule_maven_plugin_version

\* C10: when every occurrence of the four property elements already holds
\* its desired value, update_pom_xml_summary reports no change and no
\* property, and neither writes pom.xml nor makes a backup of it.
C10_MatchingValuesLeftAlone ==
    (pc = "update_artifact" /\ invocation = "first" /\ fault = NoFault
        /\ ElementValues(fs_start[POM_XML], MULE_VERSION) # {}
        /\ UpToDate(fs_start[POM_XML], config_file.value))
        => /\ changed_files = <<>>
           /\ changed_properties = <<>>
           /\ io_log = <<>>
           /\ fs = fs_start

\* the four properties with their desired values, in the order of the passes
PropertyPasses(config) ==
    << [name |-> MULE_VERSION, value |-> config.app_runtime_version],
       [name |-> MUNIT_VERSION, value |-> config.munit_version],
       [name |-> MULE_MAVEN_PLUGIN_VERSION, value |-> config.mule_maven_plugin_version],
       [name |-> APP_RUNTIME, value |-> config.app_runtime_version] >>

\* where the elements named exactly property_name open
Occurrences(content, property_name) ==
    {a \in 1..Len(content) :
        /\ content[a] = Open(property_name)
        /\ NextTag(content, a + 1) <= Len(content)
        /\ content[NextTag(content, a + 1)] = Close(property_name)}

ValueOf(content, a) == SubSeq(content, a + 1, NextTag(content, a + 1) - 1)

\* one description per occurrence whose trimmed value differs, in document order
RECURSIVE DescriptionsOf(_, _, _, _)
DescriptionsOf(content, property_name, desired, todo) ==
    IF todo = {} THEN <<>>
    ELSE (IF Trim(ValueOf(content, Min(todo))) # desired
          THEN <<PropertyDescription(property_name, ValueOf(content, Min(todo)), desired)>>
          ELSE <<>>)
         \o DescriptionsOf(content, property_name, desired, todo \ {Min(todo)})

RECURSIVE ExpectedDescriptions(_, _, _)
ExpectedDescriptions(content, passes, k) ==
    IF k > Len(passes) THEN <<>>
    ELSE DescriptionsOf(content, passes[k].name, passes[k].value,
                        Occurrences(content, passes[k].name))
         \o ExpectedDescriptions(content, passes, k + 1)

\* the positions inside the value of an element of one of the passes
ValueIndices(content, passes) ==
    {i \in 1..Len(content) :
        \E k \in 1..Len(passes) : \E a \in Occurrences(content, passes[k].name) :
            a < i /\ i < NextTag(content, a + 1)}

RECURSIVE TextAt(_, _)
TextAt(content, indices) ==
    IF indices = {} THEN <<>>
    ELSE <<content[Min(indices)]>> \o TextAt(content, indices \ {Min(indices)})

\* the document without the values of the four properties
OutsideValues(content, passes) ==
    TextAt(content, (1..Len(content)) \ ValueIndices(content, passes))

AfterPomUpdate ==
    pc = "update_artifact" /\ invocation = "first" /\ fault = NoFault /\ ~opts.dry_run

\* no value of the four properties carries surrounding whitespace
ValuesTrimmed(content, passes) ==
    \A k \in 1..Len(passes) : \A v \in ElementValues(content, passes[k].name) : Trim(v) = v

\* C11: after update_pom_xml_summary every occurrence of the four property
\* elements holds the desired value, one description is recorded per
\* occurrence whose trimmed value differed, the text outside the values is
\* unchanged, and changed is true exactly when a description was recorded.
C11_EveryDifferingOccurrenceRewritten ==
    (AfterPomUpdate
        /\ ValuesTrimmed(fs_start[POM_XML], PropertyPasses(config_file.value)))
        => /\ \A k \in 1..4 :
                 \A v \in ElementValues(fs[POM_XML], PropertyPasses(config_file.value)[k].name) :
                     v = PropertyPasses(config_file.value)[k].value
           /\ changed_properties =
                 ExpectedDescriptions(fs_start[POM_XML], PropertyPasses(config_file.value), 1)
           /\ OutsideValues(fs[POM_XML], PropertyPasses(config_file.value))
                 = OutsideValues(fs_start[POM_XML], PropertyPasses(config_file.value))
           /\ (POM_XML \in Range(changed_files)) <=> (changed_properties # <<>>)

JsonDocument(tree) == from_str(tree[MULE_ARTIFACT_JSON])

Member(v, key) == IF key \in DOMAIN v.members THEN <<v.members[key]>> ELSE <<>>

\* the value at requiredProduct.javaSpecificationVersions, if there is one
JavaVersionsOf(v) ==
    IF HasJavaVersions(v.members)
    THEN <<v.members[REQUIRED_PRODUCT].members[JAVA_SPECIFICATION_VERSIONS]>>
    ELSE <<>>

MinDiffers(v, config) ==
    /\ Member(v, MIN_MULE_VERSION) # <<>>
    /\ Member(v, MIN_MULE_VERSION) # <<JStr(config.mule_artifact.min_mule_version)>>

JavaDiffers(v, config) ==
    /\ JavaVersionsOf(v) # <<>>
    /\ JavaVersionsOf(v)
          # <<JavaVersionsValue(config.mule_artifact.java_specification_versions)>>

\* the members of the document apart from the two fields
OtherMembers(v) ==
    [key \in (DOMAIN v.members) \ {MIN_MULE_VERSION, REQUIRED_PRODUCT} |-> v.members[key]]

OtherProductMembers(v) ==
    IF REQUIRED_PRODUCT \in DOMAIN v.members /\ v.members[REQUIRED_PRODUCT].t = "obj"
    THEN <<[key \in (DOMAIN v.members[REQUIRED_PRODUCT].members)
                       \ {JAVA_SPECIFICATION_VERSIONS} |->
               v.members[REQUIRED_PRODUCT].members[key]]>>
    ELSE Member(v, REQUIRED_PRODUCT)

AfterArtifactUpdate ==
    /\ pc = "replace" /\ invocation = "first" /\ fault = NoFault
    /\ JsonDocument(fs_start).ok /\ JsonDocument(fs_start).val.t = "obj"

\* what the file holds after the call, given what it held before
ExpectedMin(before, config) ==
    IF MinDiffers(before, config)
    THEN <<JStr(config.mule_artifact.min_mule_version)>>
    ELSE Member(before, MIN_MULE_VERSION)

ExpectedJava(before, config) ==
    IF JavaDiffers(before, config)
    THEN <<JavaVersionsValue(config.mule_artifact.java_specification_versions)>>
    ELSE JavaVersionsOf(before)

ArtifactIo == {e \in Range(io_log) : e.path \in {MULE_ARTIFACT_JSON, BackupPath(MULE_ARTIFACT_JSON)}}

\* C12: update_mule_artifact_json_summary sets minMuleVersion and
\* requiredProduct.javaSpecificationVersions to the desired values when
\* present and different, records one description per field it changed,
\* returns changed exactly when a description was recorded, leaves an absent
\* or equal field alone, and does not rewrite the file when nothing changed.
C12_JsonUpdaterContract ==
    AfterArtifactUpdate
        => /\ Len(changed_json)
                 = (IF MinDiffers(JsonDocument(fs_start).val, config_file.value) THEN 1 ELSE 0)
                   + (IF JavaDiffers(JsonDocument(fs_start).val, config_file.value) THEN 1 ELSE 0)
           /\ MinDiffers(JsonDocument(fs_start).val, config_file.value)
                 <=> (\E d \in Range(changed_json) : d.field = "minMuleVersion")
           /\ JavaDiffers(JsonDocument(fs_start).val, config_file.value)
                 <=> (\E d \in Range(changed_json) :
                         d.field = "requiredProduct.javaSpecificationVersions")
           /\ (MULE_ARTIFACT_JSON \in Range(changed_files)) <=> (changed_json # <<>>)
           /\ changed_json = <<>>
                 => (fs[MULE_ARTIFACT_JSON] = fs_start[MULE_ARTIFACT_JSON] /\ ArtifactIo = {})
           /\ ~opts.dry_run
                 => /\ JsonDocument(fs).ok
                    /\ Member(JsonDocument(fs).val, MIN_MULE_VERSION)
                          = ExpectedMin(JsonDocument(fs_start).val, config_file.value)
                    /\ JavaVersionsOf(JsonDocument(fs).val)
                          = ExpectedJava(JsonDocument(fs_start).val, config_file.value)
                    /\ OtherMembers(JsonDocument(fs).val)
                          = OtherMembers(JsonDocument(fs_start).val)
                    /\ OtherProductMembers(JsonDocument(fs).val)
                          = OtherProductMembers(JsonDocument(fs_start).val)

C12_Witness ==
    /\ AfterArtifactUpdate /\ ~opts.dry_run
    /\ MinDiffers(JsonDocument(fs_start).val, config_file.value)
    /\ JavaDiffers(JsonDocument(fs_start).val, config_file.value)
    /\ Len(changed_json) = 2
    /\ fs[MULE_ARTIFACT_JSON] # fs_start[MULE_ARTIFACT_JSON]

NoRuleMatches(content, replacements) ==
    \A rule \in Range(replacements) : ~Contains(content, rule.from)

\* what one step appended to a list
Appended(before, after) == SubSeq(after, Len(before) + 1, Len(after))

\* C13: a visited file in which no rule's `from` occurs is not written, gets
\* no .bak backup, and is named by no change description.
C13_NoMatchNoRewrite ==
    [][pc = "replace"
        => \A p \in Visited(fs) :
              NoRuleMatches(fs[p], config_file.value.replacements)
                 => /\ fs'[p] = fs[p]
                    /\ BackupPath(p) \in DOMAIN fs'
                          => /\ BackupPath(p) \in DOMAIN fs
                             /\ fs'[BackupPath(p)] = fs[BackupPath(p)]
                    /\ \A e \in Range(Appended(io_log, io_log')) :
                          e.path \notin {p, BackupPath(p)}
                    /\ \A d \in Range(Appended(replacements_summary, replacements_summary')) :
                          d.path # p]_vars

C13_Witness ==
    /\ pc = "report" /\ opts.backup /\ ~opts.dry_run
    /\ replacements_summary # <<>>
    /\ \E p \in Visited(fs) :
          /\ NoRuleMatches(fs[p], config_file.value.replacements)
          /\ \A d \in Range(replacements_summary) : d.path # p
          /\ BackupPath(p) \notin DOMAIN fs

StepNames == [i \in 1..Len(trace) |-> trace[i].step]

ExpectedSteps ==
    (IF opts.update_maven_deps THEN <<"update_maven_dependencies">> ELSE <<>>)
    \o (IF opts.build_mule_project THEN <<"build_mule_project">> ELSE <<>>)
    \o <<"update_pom_xml", "update_mule_artifact_json", "traverse_and_replace",
         "print_summary">>

\* C14: a run that passes the validation and loads its configuration executes
\* the dependency upgrade and the build when requested, then the update of
\* pom.xml, the update of mule-artifact.json, the bulk replace and the
\* report, in this order and each exactly once.
C14_StepsInOrder ==
    (Exited /\ is_mule_project(fs_start) /\ config_file.status = "ok")
        => StepNames = ExpectedSteps

\* the content after the rules from i on, applied one after the other
RECURSIVE Sequentially(_, _, _)
Sequentially(content, replacements, i) ==
    IF i > Len(replacements) THEN content
    ELSE Sequentially(Replace(content, replacements[i].from, replacements[i].to),
                      replacements, i + 1)

\* one description for every rule whose `from` occurs when its turn comes
RECURSIVE ExpectedReplacements(_, _, _, _)
ExpectedReplacements(path, content, replacements, i) ==
    IF i > Len(replacements) THEN <<>>
    ELSE (IF Contains(content, replacements[i].from)
          THEN <<ReplacementDescription(path, replacements[i].from, replacements[i].to)>>
          ELSE <<>>)
         \o ExpectedReplacements(path,
                Replace(content, replacements[i].from, replacements[i].to),
                replacements, i + 1)

RECURSIVE Naming(_, _)
Naming(descriptions, path) ==
    IF descriptions = <<>> THEN <<>>
    ELSE (IF Head(descriptions).path = path THEN <<Head(descriptions)>> ELSE <<>>)
         \o Naming(Tail(descriptions), path)

\* C15: the bulk replace applies the rules one after the other to the content
\* of a file, a later rule acting on the text an earlier one produced, and
\* emits one description per rule whose `from` occurs when the rule is applied.
C15_RulesAppliedInOrder ==
    [][pc = "replace"
        => \A p \in Visited(fs) :
              fault.path # p
                 => /\ Naming(Appended(replacements_summary, replacements_summary'), p)
                          = ExpectedReplacements(p, fs[p], config_file.value.replacements, 1)
                    /\ ~opts.dry_run
                          => fs'[p] = Sequentially(fs[p], config_file.value.replacements, 1)]_vars

C15_Witness ==
    /\ pc = "report" /\ ~opts.dry_run /\ fault = NoFault
    /\ fs[FLOW_XML] = <<Ch("bar"), Ch("bar"), Ch("a"), Ch("bar"), Ch("bar")>>
    /\ Len(Naming(replacements_summary, FLOW_XML)) = 2

\* the names of the elements of a document
ElementNames(content) == {content[i].n : i \in {j \in 1..Len(content) : content[j].k = "open"}}

\* the values of the elements named property_name, in document order
ValuesInOrder(content, property_name) ==
    [i \in 1..Cardinality(Occurrences(content, property_name)) |->
        ValueOf(content,
                CHOOSE a \in Occurrences(content, property_name) :
                    Cardinality({b \in Occurrences(content, property_name) : b <= a}) = i)]

\* C16: the update of a property changes only the elements named exactly
\* like the property: an element of any other name keeps its text, and no
\* description is recorded when no element of the four names is there.
C16_NamesMatchedLiterally ==
    AfterPomUpdate
        => /\ \A name \in ElementNames(fs_start[POM_XML])
                     \ Range([k \in 1..4 |-> PropertyPasses(config_file.value)[k].name]) :
                 ValuesInOrder(fs[POM_XML], name) = ValuesInOrder(fs_start[POM_XML], name)
           /\ (\A k \in 1..4 :
                  Occurrences(fs_start[POM_XML], PropertyPasses(config_file.value)[k].name) = {})
                 => changed_properties = <<>>

\* the bulk replace ran over a tree whose flow.xml cannot be read
UnreadableSource ==
    /\ fault = [op |-> "read", path |-> FLOW_XML]
    /\ Step("traverse_and_replace") \in Range(trace)

\* C17: a failure inside an updater or the bulk replace does not end the
\* process; run_migration receives it and reports it as an error or a warning.
C17_FailuresReachOrchestrator ==
    Exited
        => /\ result.kind # "panic"
           /\ exit_code \in {0, 1}
           /\ UnreadableSource => (result.kind = "err" \/ errors # <<>>)

====
